---- MODULE Spec2Model ----
(***************************************************************************)
(* The request/reply conformance kit: the "rr" suite declared in           *)
(* tck/framework/request_reply.go, the default container setup             *)
(* setUpContainerUsingPortEnvVar, and the Runner, teardown, port lookup    *)
(* and result aggregation that drive them.                                 *)
(***************************************************************************)
EXTENDS Integers, Sequences, FiniteSets, TLC

\* ------------------------------------------------------------------------
\* Bounds of the model
\* ------------------------------------------------------------------------
\* Number of host ports the ephemeral range is cut down to.
NumPorts == 2
\* Number of container-engine faults (pull, create, start, stop, remove
\* errors) injected in one run.
MaxFaults == 1
Workers == {1, 2}
Ports == 1..NumPorts

\* ------------------------------------------------------------------------
\* Program constants
\* ------------------------------------------------------------------------
\* for i := 0; i < 10; i = i + 1
MaxAttempts == 10
\* 10 * time.Millisecond * 2^i
BaseDelay == 10
\* time.Sleep(1000 * time.Millisecond)
SettleDelay == 1000
\* Suite.Port
SuitePort == 8080
\* nat.Port("4321"), Env "PORT=4321"
ContainerPort == 4321

\* math.Pow with its arguments swapped: i to the power 2.
Pow2ArgsSwapped(n) == n * n

\* math.Pow(2, float64(i))
RECURSIVE Pow2(_)
Pow2(n) == IF n = 0 THEN 1 ELSE 2 * Pow2(n - 1)

\* The declared cases of the rr suite, with rr-0003 declared mandatory.
Request_replyAllMandatory ==
  [Name |-> "rr", Port |-> SuitePort,
   Cases |-> << [Name |-> "rr-0001", Optional |-> FALSE, Image |-> "upper"],
                [Name |-> "rr-0002", Optional |-> FALSE, Image |-> "upper"],
                [Name |-> "rr-0003", Optional |-> FALSE, Image |-> "upper"],
                [Name |-> "rr-0004", Optional |-> FALSE, Image |-> "upper"],
                [Name |-> "rr-0005", Optional |-> TRUE, Image |-> "upper"] >>]

\* The declared cases of the rr suite, with rr-0000 still enabled.
Request_replyWithRr0000 ==
  [Name |-> "rr", Port |-> SuitePort,
   Cases |-> << [Name |-> "rr-0000", Optional |-> FALSE, Image |-> "upper"],
                [Name |-> "rr-0001", Optional |-> FALSE, Image |-> "upper"],
                [Name |-> "rr-0002", Optional |-> FALSE, Image |-> "upper"],
                [Name |-> "rr-0003", Optional |-> TRUE, Image |-> "upper"],
                [Name |-> "rr-0004", Optional |-> FALSE, Image |-> "upper"],
                [Name |-> "rr-0005", Optional |-> TRUE, Image |-> "upper"] >>]

\* var Request_reply = Suite{...}
Request_reply ==
  [Name |-> "rr", Port |-> SuitePort,
   Cases |-> << [Name |-> "rr-0001", Optional |-> FALSE, Image |-> "upper"],
                [Name |-> "rr-0002", Optional |-> FALSE, Image |-> "upper"],
                [Name |-> "rr-0003", Optional |-> TRUE, Image |-> "upper"],
                [Name |-> "rr-0004", Optional |-> FALSE, Image |-> "upper"],
                [Name |-> "rr-0005", Optional |-> TRUE, Image |-> "upper"] >>]

\* The values a verification procedure T panics with: panic(err) for a
\* transport or read error, panic("...") for a failed expectation.
PanicValues == {"panic: error", "panic: message"}

\* The ways a call of T ends: normal return, or one of its panics.
TResults == {"nil"} \cup PanicValues

VARIABLES
  suite,      \* suite[w]: the cases worker w runs
  idx,        \* idx[w]: index of the case worker w is at
  pc,         \* pc[w]: where worker w is in the run of its current case
  err,        \* err[w]: setup's local err
  hostPort,   \* hostPort[w]: setup's local hostPort (0: not assigned)
  cont,       \* cont[w]: setup's local cont.ID (<<>>: not assigned)
  i,          \* i[w]: the loop counter of the readiness loop
  dials,      \* dials[w]: net.Dial calls made by the readiness loop
  waited,     \* waited[w]: milliseconds slept by the readiness loop
  ret,        \* ret[w]: what setup returned, (*Container, error)
  phaseFailed,\* phaseFailed[w]: the setup phase that failed for this case
  ready,      \* ready[w]: a connection to this case's instance succeeded
  verif,      \* verif[w]: "none", "running", or how T ended
  teardowns,  \* teardowns[w]: teardown invocations for this case
  tdErr,      \* tdErr[w]: stop or remove raised an error for this case
  result,     \* result[w]: the outcome the Runner holds for this case
  outcomes,   \* outcomes[w]: the Case Outcomes of the suite report
  report,     \* report[w]: overall status of the suite ("" until computed)
  exitCode,   \* process exit code (-1 until computed)
  containers, \* the engine's containers: id -> [state, bound, exposed,
              \* env], bound the host port the engine holds for it
              \* (0: none), exposed the container port of ExposedPorts, env
              \* the number of the PORT variable
  extPorts,   \* host ports held by other processes
  faults,     \* engine faults injected so far
  image,      \* the candidate image in the engine's local store
  setupLog,   \* setupLog[w]: what the setup of this case has done so far
  probe       \* a verification procedure applied to a candidate's replies

vars == << suite, idx, pc, err, hostPort, cont, i, dials, waited, ret,
           phaseFailed, ready, verif, teardowns, tdErr, result, outcomes,
           report, exitCode, containers, extPorts, faults, image, setupLog,
           probe >>

runVars == << suite, idx, outcomes, report, exitCode >>

NoReturn == [cont |-> <<>>, err |-> "nil"]
NoResult == [status |-> "", diag |-> ""]

\* Nothing done yet: no call issued, no port dialled with success, no
\* settle delay slept.
NoLog == [steps |-> <<>>, probed |-> 0, settled |-> 0]

\* No verification procedure is being examined.
NoProbe == [case |-> "", first |-> <<>>, second |-> <<>>, out |-> ""]

\* Host ports bound by running containers.
BoundPorts == { containers[c].bound : c \in DOMAIN containers } \ {0}

\* Host ports chosen by a setup of this process and not yet bound.
PendingPorts(w) == { hostPort[v] : v \in { u \in Workers \ {w} : pc[u] \in {"create", "start"} } }

\* The id the engine assigns to the container worker w creates now.
FreshID(w) == << w, idx[w] >>

CurrentCase(w) == suite[w][idx[w]]

InitCommon ==
  /\ idx = [w \in Workers |-> 1]
  /\ pc = [w \in Workers |-> IF suite[w] = <<>> THEN "idle" ELSE "next"]
  /\ err = [w \in Workers |-> "nil"]
  /\ hostPort = [w \in Workers |-> 0]
  /\ cont = [w \in Workers |-> <<>>]
  /\ i = [w \in Workers |-> 0]
  /\ dials = [w \in Workers |-> 0]
  /\ waited = [w \in Workers |-> 0]
  /\ ret = [w \in Workers |-> NoReturn]
  /\ phaseFailed = [w \in Workers |-> ""]
  /\ ready = [w \in Workers |-> FALSE]
  /\ verif = [w \in Workers |-> "none"]
  /\ teardowns = [w \in Workers |-> 0]
  /\ tdErr = [w \in Workers |-> FALSE]
  /\ result = [w \in Workers |-> NoResult]
  /\ outcomes = [w \in Workers |-> <<>>]
  /\ report = [w \in Workers |-> ""]
  /\ exitCode = -1
  /\ containers = << >>
  /\ extPorts = {}
  /\ faults = 0
  /\ image = "absent"
  /\ setupLog = [w \in Workers |-> NoLog]

\* One worker runs the rr suite; the other has nothing to run.
Init ==
  /\ suite = [w \in Workers |-> IF w = 1 THEN Request_reply.Cases ELSE <<>>]
  /\ probe = NoProbe
  /\ InitCommon

\* ------------------------------------------------------------------------
\* Runner: start of a case
\* ------------------------------------------------------------------------
RunCase(w) ==
  /\ pc[w] = "next"
  /\ idx[w] <= Len(suite[w])
  /\ pc' = [pc EXCEPT ![w] = "pull"]
  /\ err' = [err EXCEPT ![w] = "nil"]
  /\ hostPort' = [hostPort EXCEPT ![w] = 0]
  /\ cont' = [cont EXCEPT ![w] = <<>>]
  /\ i' = [i EXCEPT ![w] = 0]
  /\ dials' = [dials EXCEPT ![w] = 0]
  /\ waited' = [waited EXCEPT ![w] = 0]
  /\ ret' = [ret EXCEPT ![w] = NoReturn]
  /\ phaseFailed' = [phaseFailed EXCEPT ![w] = ""]
  /\ ready' = [ready EXCEPT ![w] = FALSE]
  /\ verif' = [verif EXCEPT ![w] = "none"]
  /\ teardowns' = [teardowns EXCEPT ![w] = 0]
  /\ tdErr' = [tdErr EXCEPT ![w] = FALSE]
  /\ result' = [result EXCEPT ![w] = NoResult]
  /\ setupLog' = [setupLog EXCEPT ![w] = NoLog]
  /\ UNCHANGED << suite, probe, image, idx, outcomes, report, exitCode, containers, extPorts, faults >>

\* ------------------------------------------------------------------------
\* setUpContainerUsingPortEnvVar
\* ------------------------------------------------------------------------
\* The frame of setup is gone once it has returned.
DropFrame(w) ==
  /\ err' = [err EXCEPT ![w] = "nil"]
  /\ hostPort' = [hostPort EXCEPT ![w] = 0]
  /\ cont' = [cont EXCEPT ![w] = <<>>]
  /\ i' = [i EXCEPT ![w] = 0]
  /\ dials' = [dials EXCEPT ![w] = 0]
  /\ waited' = [waited EXCEPT ![w] = 0]

\* return nil, err
ReturnErr(w, e) ==
  /\ ret' = [ret EXCEPT ![w] = [cont |-> <<>>, err |-> e]]
  /\ pc' = [pc EXCEPT ![w] = "returned"]
  /\ DropFrame(w)

\* &Container{id: cont.ID, hostPort: hostPort} with the container port
\* in place of the host port.
NewContainerWithContainerPort(id, port) == [id |-> id, hostPort |-> ContainerPort]

\* &Container{id: cont.ID, hostPort: hostPort}
NewContainer(id, port) == [id |-> id, hostPort |-> port]

\* The client's error when the engine cannot be reached: the same value
\* whichever call met it.
DaemonUnreachable == "docker daemon unreachable"

\* The errors a call of setup can return. The name of the call stands for
\* the errors only that call produces (no such image, port is already
\* allocated, connection refused, ...).
ErrorsOf(call) ==
  IF call \in {"ImagePull", "ContainerCreate", "ContainerStart"}
    THEN {call, DaemonUnreachable}
    ELSE {call}

\* The log of worker w with the call added to its steps (once: the dials of
\* the readiness loop are one step).
Logged(w, call) ==
  [setupLog EXCEPT ![w].steps =
     IF \E k \in 1..Len(setupLog[w].steps) : setupLog[w].steps[k] = call
       THEN @
       ELSE Append(@, call)]

\* _, _ = r.dockerClient.ImagePull(...): the error is dropped with the
\* reader.
ImagePullNoErrCheck(w) ==
  /\ pc[w] = "pull"
  /\ setupLog' = Logged(w, "ImagePull")
  /\ \/ /\ image' = IF image = "absent" THEN "pulling" ELSE image
        /\ UNCHANGED << phaseFailed, faults >>
     \/ /\ faults < MaxFaults
        /\ faults' = faults + 1
        /\ phaseFailed' = [phaseFailed EXCEPT ![w] = "ImagePull"]
        /\ UNCHANGED image
  /\ pc' = [pc EXCEPT ![w] = "port"]
  /\ UNCHANGED << runVars, probe, err, hostPort, cont, i, dials, waited, ret, ready, verif,
                  teardowns, tdErr, result, containers, extPorts >>

\* _, err := r.dockerClient.ImagePull(...); if err != nil { return nil, err }
\* The engine accepts the request and answers with the progress stream of
\* the pull; the stream is the result the code drops, so the call returns
\* with the pull under way when the image was not in the local store.
ImagePull(w) ==
  /\ pc[w] = "pull"
  /\ setupLog' = Logged(w, "ImagePull")
  /\ \/ /\ image' = IF image = "absent" THEN "pulling" ELSE image
        /\ pc' = [pc EXCEPT ![w] = "port"]
        /\ UNCHANGED << err, hostPort, cont, i, dials, waited, ret, phaseFailed, faults >>
     \/ /\ faults < MaxFaults
        /\ faults' = faults + 1
        /\ phaseFailed' = [phaseFailed EXCEPT ![w] = "ImagePull"]
        /\ \E e \in ErrorsOf("ImagePull") : ReturnErr(w, e)
        /\ UNCHANGED image
  /\ UNCHANGED << runVars, probe, ready, verif, teardowns, tdErr, result, containers, extPorts >>

\* The engine finishes a pull nobody waits for.
PullCompletes ==
  /\ image = "pulling"
  /\ image' = "present"
  /\ UNCHANGED << runVars, probe, pc, err, hostPort, cont, i, dials, waited, ret,
                  phaseFailed, ready, verif, teardowns, tdErr, result,
                  containers, extPorts, faults, setupLog >>

\* getFreePort(): a host port that is free now and that no other setup of
\* this process is holding for a container it has not started yet.
FreePorts(w) == Ports \ (BoundPorts \cup extPorts \cup PendingPorts(w))

\* hostPort, err := getFreePort(); if err != nil { return nil, err }
\* Host ports are interchangeable (they are only compared with each
\* other), so the free port the system hands out is taken to be the lowest
\* one; which ports are free still varies with what other processes hold.
GetFreePort(w) ==
  /\ pc[w] = "port"
  /\ setupLog' = Logged(w, "getFreePort")
  /\ \/ /\ \E p \in FreePorts(w) :
             /\ \A q \in FreePorts(w) : p <= q
             /\ hostPort' = [hostPort EXCEPT ![w] = p]
        /\ pc' = [pc EXCEPT ![w] = "create"]
        /\ UNCHANGED << err, cont, i, dials, waited, ret, phaseFailed >>
     \/ /\ FreePorts(w) = {}
        /\ phaseFailed' = [phaseFailed EXCEPT ![w] = "getFreePort"]
        /\ ReturnErr(w, "getFreePort")
  /\ UNCHANGED << runVars, probe, image, ready, verif, teardowns, tdErr, result, containers, extPorts, faults >>

\* cont, err := r.dockerClient.ContainerCreate(...); if err != nil { return nil, err }
\* The engine creates a container of an image of its local store only: it
\* answers "No such image" otherwise.
ContainerCreate(w) ==
  /\ pc[w] = "create"
  /\ setupLog' = Logged(w, "ContainerCreate")
  /\ \/ /\ image = "present"
        /\ cont' = [cont EXCEPT ![w] = << FreshID(w) >>]
        /\ containers' = [c \in DOMAIN containers \cup {FreshID(w)} |->
                            IF c = FreshID(w)
                              THEN [state |-> "created", bound |-> 0,
                                    exposed |-> ContainerPort, env |-> ContainerPort]
                              ELSE containers[c]]
        /\ pc' = [pc EXCEPT ![w] = "start"]
        /\ UNCHANGED << err, hostPort, i, dials, waited, ret, phaseFailed, faults >>
     \/ /\ \/ /\ image # "present"
              /\ ReturnErr(w, "ContainerCreate")
              /\ UNCHANGED faults
           \/ /\ faults < MaxFaults
              /\ faults' = faults + 1
              /\ \E e \in ErrorsOf("ContainerCreate") : ReturnErr(w, e)
        /\ phaseFailed' = [phaseFailed EXCEPT ![w] = "ContainerCreate"]
        /\ UNCHANGED containers
  /\ UNCHANGED << runVars, probe, image, ready, verif, teardowns, tdErr, result, extPorts >>

\* The engine refuses to start a container whose host port is taken.
PortTaken(p) == p \in BoundPorts \cup extPorts

\* err = r.dockerClient.ContainerStart(...) without the check of err.
ContainerStartNoErrCheck(w) ==
  /\ pc[w] = "start"
  /\ setupLog' = Logged(w, "ContainerStart")
  /\ \/ /\ ~PortTaken(hostPort[w])
        /\ containers' = [containers EXCEPT ![cont[w][1]].state = "running",
                                            ![cont[w][1]].bound = hostPort[w]]
        /\ UNCHANGED << err, phaseFailed, faults >>
     \/ /\ \/ PortTaken(hostPort[w]) /\ UNCHANGED faults
           \/ faults < MaxFaults /\ faults' = faults + 1
        /\ err' = [err EXCEPT ![w] = "ContainerStart"]
        /\ phaseFailed' = [phaseFailed EXCEPT ![w] = "ContainerStart"]
        /\ UNCHANGED containers
  /\ pc' = [pc EXCEPT ![w] = "dial"]
  /\ UNCHANGED << runVars, probe, image, hostPort, cont, i, dials, waited, ret, ready, verif,
                  teardowns, tdErr, result, extPorts >>

\* err = r.dockerClient.ContainerStart(...); if err != nil { return nil, err }
ContainerStart(w) ==
  /\ pc[w] = "start"
  /\ setupLog' = Logged(w, "ContainerStart")
  /\ \/ /\ ~PortTaken(hostPort[w])
        /\ containers' = [containers EXCEPT ![cont[w][1]].state = "running",
                                            ![cont[w][1]].bound = hostPort[w]]
        /\ pc' = [pc EXCEPT ![w] = "dial"]
        /\ UNCHANGED << err, hostPort, cont, i, dials, waited, ret, phaseFailed, faults >>
     \/ /\ \/ /\ PortTaken(hostPort[w])
              /\ ReturnErr(w, "ContainerStart")
              /\ UNCHANGED faults
           \/ /\ faults < MaxFaults
              /\ faults' = faults + 1
              /\ \E e \in ErrorsOf("ContainerStart") : ReturnErr(w, e)
        /\ phaseFailed' = [phaseFailed EXCEPT ![w] = "ContainerStart"]
        /\ UNCHANGED containers
  /\ UNCHANGED << runVars, probe, image, ready, verif, teardowns, tdErr, result, extPorts >>

\* net.Dial can succeed once the container is running with the host port
\* bound to it.
CanConnect(w) ==
  /\ cont[w] # <<>>
  /\ cont[w][1] \in DOMAIN containers
  /\ containers[cont[w][1]].state = "running"

\* The guard of the readiness loop, off by one.
LoopGuardOffByOne(n) == n <= MaxAttempts

\* i < 10
LoopGuard(n) == n < MaxAttempts

\* One iteration of the loop with "_, err := net.Dial(...)": the err of
\* the loop body shadows the err that is checked after the loop.
DialAttemptShadowedErr(w) ==
  /\ pc[w] = "dial"
  /\ LoopGuard(i[w])
  /\ dials' = [dials EXCEPT ![w] = @ + 1]
  /\ \/ /\ CanConnect(w)
        /\ setupLog' = [Logged(w, "Dial") EXCEPT ![w].probed = hostPort[w]]
        /\ ready' = [ready EXCEPT ![w] = TRUE]
        /\ pc' = [pc EXCEPT ![w] = "afterLoop"]
        /\ i' = [i EXCEPT ![w] = 0]
        /\ UNCHANGED << waited, phaseFailed >>
     \/ /\ setupLog' = Logged(w, "Dial")
        /\ waited' = [waited EXCEPT ![w] = @ + BaseDelay * Pow2(i[w])]
        /\ IF LoopGuard(i[w] + 1)
             THEN /\ i' = [i EXCEPT ![w] = @ + 1]
                  /\ pc' = [pc EXCEPT ![w] = "dial"]
                  /\ UNCHANGED phaseFailed
             ELSE /\ i' = [i EXCEPT ![w] = 0]
                  /\ pc' = [pc EXCEPT ![w] = "afterLoop"]
                  /\ phaseFailed' = [phaseFailed EXCEPT ![w] = "Dial"]
        /\ UNCHANGED ready
  /\ UNCHANGED << runVars, probe, image, err, hostPort, cont, ret, verif, teardowns, tdErr, result,
                  containers, extPorts, faults >>

\* One iteration of the loop dialling the container port, localhost:4321,
\* where the host port should be.
DialAttemptContainerPort(w) ==
  /\ pc[w] = "dial"
  /\ LoopGuard(i[w])
  /\ dials' = [dials EXCEPT ![w] = @ + 1]
  /\ \/ /\ setupLog' = [Logged(w, "Dial") EXCEPT ![w].probed = ContainerPort]
        /\ err' = [err EXCEPT ![w] = "nil"]
        /\ ready' = [ready EXCEPT ![w] = TRUE]
        /\ pc' = [pc EXCEPT ![w] = "afterLoop"]
        /\ i' = [i EXCEPT ![w] = 0]
        /\ UNCHANGED << waited, phaseFailed >>
     \/ /\ setupLog' = Logged(w, "Dial")
        /\ err' = [err EXCEPT ![w] = "Dial"]
        /\ waited' = [waited EXCEPT ![w] = @ + BaseDelay * Pow2(i[w])]
        /\ IF LoopGuard(i[w] + 1)
             THEN /\ i' = [i EXCEPT ![w] = @ + 1]
                  /\ pc' = [pc EXCEPT ![w] = "dial"]
                  /\ UNCHANGED phaseFailed
             ELSE /\ i' = [i EXCEPT ![w] = 0]
                  /\ pc' = [pc EXCEPT ![w] = "afterLoop"]
                  /\ phaseFailed' = [phaseFailed EXCEPT ![w] = "Dial"]
        /\ UNCHANGED ready
  /\ UNCHANGED << runVars, probe, image, hostPort, cont, ret, verif, teardowns, tdErr, result,
                  containers, extPorts, faults >>

\* One iteration of
\*   for i := 0; i < 10; i = i + 1 {
\*     _, err = net.Dial(...); if err == nil { break }
\*     time.Sleep(10 * time.Millisecond * 2^i) }
DialAttempt(w) ==
  /\ pc[w] = "dial"
  /\ LoopGuard(i[w])
  /\ dials' = [dials EXCEPT ![w] = @ + 1]
  /\ \/ /\ CanConnect(w)
        /\ setupLog' = [Logged(w, "Dial") EXCEPT ![w].probed = hostPort[w]]
        /\ err' = [err EXCEPT ![w] = "nil"]
        /\ ready' = [ready EXCEPT ![w] = TRUE]
        /\ pc' = [pc EXCEPT ![w] = "afterLoop"]
        /\ i' = [i EXCEPT ![w] = 0]
        /\ UNCHANGED << waited, phaseFailed >>
     \/ /\ setupLog' = Logged(w, "Dial")
        /\ err' = [err EXCEPT ![w] = "Dial"]
        /\ waited' = [waited EXCEPT ![w] = @ + BaseDelay * Pow2(i[w])]
        /\ IF LoopGuard(i[w] + 1)
             THEN /\ i' = [i EXCEPT ![w] = @ + 1]
                  /\ pc' = [pc EXCEPT ![w] = "dial"]
                  /\ UNCHANGED phaseFailed
             ELSE /\ i' = [i EXCEPT ![w] = 0]
                  /\ pc' = [pc EXCEPT ![w] = "afterLoop"]
                  /\ phaseFailed' = [phaseFailed EXCEPT ![w] = "Dial"]
        /\ UNCHANGED ready
  /\ UNCHANGED << runVars, probe, image, hostPort, cont, ret, verif, teardowns, tdErr, result,
                  containers, extPorts, faults >>

\* The code after the loop without "if err != nil { return nil, err }".
AfterLoopNoErrCheck(w) ==
  /\ pc[w] = "afterLoop"
  /\ pc' = [pc EXCEPT ![w] = "settle"]
  /\ dials' = [dials EXCEPT ![w] = 0]
  /\ waited' = [waited EXCEPT ![w] = 0]
  /\ UNCHANGED << runVars, probe, image, err, hostPort, cont, i, ret, phaseFailed, ready,
                  verif, teardowns, tdErr, result, containers, extPorts, faults, setupLog >>

\* if err != nil { return nil, err }
AfterLoop(w) ==
  /\ pc[w] = "afterLoop"
  /\ IF err[w] # "nil"
       THEN ReturnErr(w, err[w])
       ELSE /\ pc' = [pc EXCEPT ![w] = "settle"]
            /\ dials' = [dials EXCEPT ![w] = 0]
            /\ waited' = [waited EXCEPT ![w] = 0]
            /\ UNCHANGED << err, hostPort, cont, i, ret >>
  /\ UNCHANGED << runVars, probe, image, phaseFailed, ready, verif, teardowns, tdErr, result,
                  containers, extPorts, faults, setupLog >>

\* return &Container{id: cont.ID, hostPort: hostPort}, nil without the
\* sleep before it.
SettleNoSleep(w) ==
  /\ pc[w] = "settle"
  /\ ret' = [ret EXCEPT ![w] = [cont |-> << NewContainer(cont[w][1], hostPort[w]) >>, err |-> "nil"]]
  /\ pc' = [pc EXCEPT ![w] = "returned"]
  /\ DropFrame(w)
  /\ UNCHANGED << runVars, probe, image, phaseFailed, ready, verif, teardowns, tdErr, result,
                  containers, extPorts, faults, setupLog >>

\* time.Sleep(1000 * time.Millisecond)
\* return &Container{id: cont.ID, hostPort: hostPort}, nil
Settle(w) ==
  /\ pc[w] = "settle"
  /\ ret' = [ret EXCEPT ![w] = [cont |-> << NewContainer(cont[w][1], hostPort[w]) >>, err |-> "nil"]]
  /\ setupLog' = [setupLog EXCEPT ![w].settled = @ + SettleDelay]
  /\ pc' = [pc EXCEPT ![w] = "returned"]
  /\ DropFrame(w)
  /\ UNCHANGED << runVars, probe, image, phaseFailed, ready, verif, teardowns, tdErr, result,
                  containers, extPorts, faults >>

\* ------------------------------------------------------------------------
\* Runner: outcome of setup, verification, teardown, report
\* ------------------------------------------------------------------------
Failed(diag) == [status |-> "Failed", diag |-> diag]
Passed == [status |-> "Passed", diag |-> ""]

\* Step (b): setup failed; the case is Failed with the setup error and the
\* Runner goes on to the next case.
SetupFailed(w) ==
  /\ pc[w] = "returned"
  /\ ret[w].cont = <<>>
  /\ result' = [result EXCEPT ![w] = Failed(ret[w].err)]
  /\ pc' = [pc EXCEPT ![w] = "record"]
  /\ UNCHANGED << runVars, probe, image, err, hostPort, cont, i, dials, waited, ret, phaseFailed, ready,
                  verif, teardowns, tdErr, containers, extPorts, faults, setupLog >>

\* Step (c): the verification procedure is invoked with the handle's port.
VerifyBegin(w) ==
  /\ pc[w] = "returned"
  /\ ret[w].cont # <<>>
  /\ verif' = [verif EXCEPT ![w] = "running"]
  /\ pc' = [pc EXCEPT ![w] = "verifying"]
  /\ UNCHANGED << runVars, probe, image, err, hostPort, cont, i, dials, waited, ret, phaseFailed, ready,
                  teardowns, tdErr, result, containers, extPorts, faults, setupLog >>

\* Step (c) without the isolation boundary: a panic ends the run.
VerifyEndNoRecover(w) ==
  /\ pc[w] = "verifying"
  /\ \E r \in TResults :
       /\ verif' = [verif EXCEPT ![w] = r]
       /\ IF r = "nil"
            THEN /\ result' = [result EXCEPT ![w] = Passed]
                 /\ pc' = [pc EXCEPT ![w] = "teardown"]
            ELSE /\ pc' = [pc EXCEPT ![w] = "crashed"]
                 /\ UNCHANGED result
  /\ UNCHANGED << runVars, probe, image, err, hostPort, cont, i, dials, waited, ret, phaseFailed, ready,
                  teardowns, tdErr, containers, extPorts, faults, setupLog >>

\* Step (c): the procedure returns or panics; the isolation boundary turns
\* a panic into a Failed outcome carrying the panic value.
VerifyEnd(w) ==
  /\ pc[w] = "verifying"
  /\ \E r \in TResults :
       /\ verif' = [verif EXCEPT ![w] = r]
       /\ result' = [result EXCEPT ![w] = IF r = "nil" THEN Passed ELSE Failed(r)]
  /\ pc' = [pc EXCEPT ![w] = "teardown"]
  /\ UNCHANGED << runVars, probe, image, err, hostPort, cont, i, dials, waited, ret, phaseFailed, ready,
                  teardowns, tdErr, containers, extPorts, faults, setupLog >>

\* Default teardown whose stop error becomes the result of the case.
StopPropagatingErr(w) ==
  /\ pc[w] = "teardown"
  /\ teardowns' = [teardowns EXCEPT ![w] = @ + 1]
  /\ \/ /\ containers' = [containers EXCEPT ![ret[w].cont[1].id].state = "exited",
                                            ![ret[w].cont[1].id].bound = 0]
        /\ UNCHANGED << tdErr, faults, result >>
     \/ /\ faults < MaxFaults
        /\ faults' = faults + 1
        /\ tdErr' = [tdErr EXCEPT ![w] = TRUE]
        /\ result' = [result EXCEPT ![w] = Failed("ContainerStop")]
        /\ UNCHANGED containers
  /\ pc' = [pc EXCEPT ![w] = "remove"]
  /\ UNCHANGED << runVars, probe, image, err, hostPort, cont, i, dials, waited, ret, phaseFailed, ready,
                  verif, extPorts, setupLog >>

\* Step (d), default teardown, first half: stop the container; an error is
\* logged and swallowed.
Stop(w) ==
  /\ pc[w] = "teardown"
  /\ teardowns' = [teardowns EXCEPT ![w] = @ + 1]
  /\ \/ /\ containers' = [containers EXCEPT ![ret[w].cont[1].id].state = "exited",
                                            ![ret[w].cont[1].id].bound = 0]
        /\ UNCHANGED << tdErr, faults >>
     \/ /\ faults < MaxFaults
        /\ faults' = faults + 1
        /\ tdErr' = [tdErr EXCEPT ![w] = TRUE]
        /\ UNCHANGED containers
  /\ pc' = [pc EXCEPT ![w] = "remove"]
  /\ UNCHANGED << runVars, probe, image, err, hostPort, cont, i, dials, waited, ret, phaseFailed, ready,
                  verif, result, extPorts, setupLog >>

\* Step (d), default teardown, second half: remove the container; an error
\* is logged and swallowed.
Remove(w) ==
  /\ pc[w] = "remove"
  /\ \/ /\ containers' = [c \in DOMAIN containers \ {ret[w].cont[1].id} |-> containers[c]]
        /\ UNCHANGED << tdErr, faults >>
     \/ /\ faults < MaxFaults
        /\ faults' = faults + 1
        /\ tdErr' = [tdErr EXCEPT ![w] = TRUE]
        /\ UNCHANGED containers
  /\ pc' = [pc EXCEPT ![w] = "record"]
  /\ UNCHANGED << runVars, probe, image, err, hostPort, cont, i, dials, waited, ret, phaseFailed, ready,
                  verif, teardowns, result, extPorts, setupLog >>

\* Step (e): the Case Outcome, tagged with the descriptor's optional flag,
\* is appended to the report; the Runner moves to the next case.
Record(w) ==
  /\ pc[w] = "record"
  /\ outcomes' = [outcomes EXCEPT ![w] =
                    Append(@, [name |-> CurrentCase(w).Name,
                               status |-> result[w].status,
                               diag |-> result[w].diag,
                               optional |-> CurrentCase(w).Optional])]
  /\ idx' = [idx EXCEPT ![w] = @ + 1]
  /\ pc' = [pc EXCEPT ![w] = "next"]
  /\ UNCHANGED << suite, probe, image, report, exitCode, err, hostPort, cont, i, dials, waited, ret,
                  phaseFailed, ready, verif, teardowns, tdErr, result,
                  containers, extPorts, faults, setupLog >>

\* A mandatory case of the report is Failed.
MandatoryFailed(os) ==
  \E k \in 1..Len(os) : os[k].status = "Failed" /\ ~os[k].optional

\* Overall status of a Suite Report.
Status(os) == IF MandatoryFailed(os) THEN "Failed" ELSE "Passed"

\* Run returns the Suite Report once every case has been run.
Report(w) ==
  /\ pc[w] = "next"
  /\ idx[w] > Len(suite[w])
  /\ report' = [report EXCEPT ![w] = Status(outcomes[w])]
  /\ pc' = [pc EXCEPT ![w] = "reported"]
  /\ UNCHANGED << suite, probe, image, idx, outcomes, exitCode, err, hostPort, cont, i, dials, waited, ret,
                  phaseFailed, ready, verif, teardowns, tdErr, result,
                  containers, extPorts, faults, setupLog >>

\* Summarize: the exit code is non-zero when a suite report is Failed.
Summarize ==
  /\ \E w \in Workers : pc[w] = "reported"
  /\ \A w \in Workers : pc[w] \in {"reported", "idle"}
  /\ exitCode' = IF \E w \in Workers : report[w] = "Failed" THEN 1 ELSE 0
  /\ pc' = [w \in Workers |-> IF pc[w] = "reported" THEN "done" ELSE pc[w]]
  /\ UNCHANGED << suite, probe, image, idx, outcomes, report, err, hostPort, cont, i, dials, waited, ret,
                  phaseFailed, ready, verif, teardowns, tdErr, result,
                  containers, extPorts, faults, setupLog >>

\* ------------------------------------------------------------------------
\* Other processes of the host
\* ------------------------------------------------------------------------
\* Another process binds a host port nobody holds.
ExternalBind ==
  /\ \E p \in Ports \ (BoundPorts \cup extPorts) : extPorts' = extPorts \cup {p}
  /\ UNCHANGED << runVars, probe, image, pc, err, hostPort, cont, i, dials, waited, ret,
                  phaseFailed, ready, verif, teardowns, tdErr, result,
                  containers, faults, setupLog >>

\* Another process releases a host port it holds.
ExternalRelease ==
  /\ \E p \in extPorts : extPorts' = extPorts \ {p}
  /\ UNCHANGED << runVars, probe, image, pc, err, hostPort, cont, i, dials, waited, ret,
                  phaseFailed, ready, verif, teardowns, tdErr, result,
                  containers, faults, setupLog >>

WorkerStep(w) ==
  \/ RunCase(w)
  \/ ImagePull(w)
  \/ GetFreePort(w)
  \/ ContainerCreate(w)
  \/ ContainerStart(w)
  \/ DialAttempt(w)
  \/ AfterLoop(w)
  \/ Settle(w)
  \/ SetupFailed(w)
  \/ VerifyBegin(w)
  \/ VerifyEnd(w)
  \/ Stop(w)
  \/ Remove(w)
  \/ Record(w)
  \/ Report(w)

\* The kit alone on the host.
Next ==
  \/ \E w \in Workers : WorkerStep(w)
  \/ Summarize
  \/ PullCompletes

Spec == Init /\ [][Next]_vars

\* The kit next to other processes that bind and release host ports.
NextWorkers ==
  \/ \E w \in Workers : WorkerStep(w)
  \/ Summarize
  \/ PullCompletes
  \/ ExternalBind
  \/ ExternalRelease

\* Two workers of one process, each running a suite of one case.
InitWorkers ==
  /\ suite = [w \in Workers |-> << Request_reply.Cases[w] >>]
  /\ probe = NoProbe
  /\ InitCommon

SpecWorkers == InitWorkers /\ [][NextWorkers]_vars

\* ------------------------------------------------------------------------
\* The verification procedures of rr-0001 and rr-0002
\* ------------------------------------------------------------------------
\* Values of a Content-Type header line.
HeaderValues ==
  {"text/plain", "text/plain; charset=utf-8", "TEXT/PLAIN", "application/json",
   "application/json; charset=utf-8", "text/plain, application/json", ""}

\* response.Header["Content-Type"]: the header lines of a reply.
ContentTypes ==
  {<< >>, << "text/plain", "text/plain" >>, << "application/json", "text/plain" >>}
    \cup { << v >> : v \in HeaderValues }

\* What a candidate does with one request: the connection fails, the body
\* cannot be read, or a reply arrives.
Replies ==
  { [err |-> e, status |-> 0, body |-> "", contentType |-> << >>] : e \in {"transport", "read"} }
    \cup [err : {"nil"}, status : {200, 404}, body : {"HELLO", "\"HELLO\"", "hello"},
          contentType : ContentTypes]

\* mime.ParseMediaType: the media type in lower case without its
\* parameters, or an error.
ParseMediaType(v) ==
  CASE v \in {"text/plain", "text/plain; charset=utf-8", "TEXT/PLAIN"} ->
         [mediaType |-> "text/plain", err |-> "nil"]
    [] v \in {"application/json", "application/json; charset=utf-8"} ->
         [mediaType |-> "application/json", err |-> "nil"]
    [] v = "" -> [mediaType |-> "", err |-> "mime: no media type"]
    [] OTHER -> [mediaType |-> "", err |-> "mime: unexpected content after media subtype"]

\* The checks of rr-0001 on the reply to POST /bogus and to PUT /, with
\* the comparison of rr-0002: panic unless the body is HELLO.
CheckOffRootInverted(r) ==
  IF r.err # "nil" THEN "panic: error"
  ELSE IF "HELLO" # r.body THEN "panic: message"
  ELSE "nil"

\* The checks of rr-0001 on the reply to POST /bogus and to PUT /:
\*   if err != nil { panic(err) }
\*   if result, err := ioutil.ReadAll(response.Body); err != nil { panic(err) }
\*   else if "HELLO" == string(result) { panic("...") }
CheckOffRoot(r) ==
  IF r.err # "nil" THEN "panic: error"
  ELSE IF "HELLO" = r.body THEN "panic: message"
  ELSE "nil"

\* rr-0001's T: POST /bogus, then PUT /.
T_rr0001(first, second) ==
  IF CheckOffRoot(first) # "nil" THEN CheckOffRoot(first) ELSE CheckOffRoot(second)

\* The checks of rr-0002 on a reply, comparing the header line itself with
\* the expected media type.
CheckReplyRawHeader(r, body, mediaType) ==
  IF r.err # "nil" THEN "panic: error"
  ELSE IF r.status # 200 THEN "panic: message"
  ELSE IF body # r.body THEN "panic: message"
  ELSE IF Len(r.contentType) # 1 THEN "panic: message"
  ELSE IF r.contentType[1] # mediaType THEN "panic: message"
  ELSE "nil"

\* The checks of rr-0002 on a reply: transport error, read error, status,
\* body, number of Content-Type lines, parse of the line, media type.
CheckReply(r, body, mediaType) ==
  IF r.err # "nil" THEN "panic: error"
  ELSE IF r.status # 200 THEN "panic: message"
  ELSE IF body # r.body THEN "panic: message"
  ELSE IF Len(r.contentType) # 1 THEN "panic: message"
  ELSE IF ParseMediaType(r.contentType[1]).err # "nil" THEN "panic: message"
  ELSE IF ParseMediaType(r.contentType[1]).mediaType # mediaType THEN "panic: message"
  ELSE "nil"

\* rr-0002's T: POST / with Accept text/plain, then with Accept
\* application/json.
T_rr0002(first, second) ==
  IF CheckReply(first, "HELLO", "text/plain") # "nil"
    THEN CheckReply(first, "HELLO", "text/plain")
    ELSE CheckReply(second, "\"HELLO\"", "application/json")

\* The procedure of the case runs against a candidate that answers its
\* first request with probe.first and its second with probe.second.
ApplyT ==
  /\ probe.case # ""
  /\ probe.out = ""
  /\ probe' = [probe EXCEPT !.out = IF probe.case = "rr-0001"
                                      THEN T_rr0001(probe.first, probe.second)
                                      ELSE T_rr0002(probe.first, probe.second)]
  /\ UNCHANGED << suite, idx, outcomes, report, exitCode, image, pc, err, hostPort, cont,
                  i, dials, waited, ret, phaseFailed, ready, verif, teardowns, tdErr,
                  result, containers, extPorts, faults, setupLog >>

\* A case and the two replies of a candidate.
InitT ==
  /\ suite = [w \in Workers |-> << >>]
  /\ probe \in [case : {"rr-0001", "rr-0002"}, first : Replies, second : Replies, out : {""}]
  /\ InitCommon

NextT == ApplyT

SpecT == InitT /\ [][NextT]_vars

\* ------------------------------------------------------------------------
\* Properties
\* ------------------------------------------------------------------------
Names(os) == [k \in 1..Len(os) |-> os[k].name]

\* The worker has recorded the outcome of the case that idx[w] - 1 names.
Recorded(w) == pc[w] \in {"next", "reported", "done"} /\ idx[w] > 1

LastOutcome(w) == outcomes[w][idx[w] - 1]

\* C1: Run produces exactly one Case Outcome per declared case, in
\* declaration order: while it runs, the report holds the outcomes of the
\* cases before the current one; once it has returned, the report covers
\* every case, and for the rr suite it reads rr-0001 .. rr-0005.
OneOutcomePerCase ==
  \A w \in Workers :
    /\ Len(outcomes[w]) = idx[w] - 1
    /\ \A k \in 1..Len(outcomes[w]) : outcomes[w][k].name = suite[w][k].Name
    /\ suite[w] = Request_reply.Cases =>
         Names(outcomes[w]) =
           SubSeq(<< "rr-0001", "rr-0002", "rr-0003", "rr-0004", "rr-0005" >>, 1, idx[w] - 1)
    /\ pc[w] \in {"reported", "done"} =>
         /\ Len(outcomes[w]) = Len(suite[w])
         /\ suite[w] = Request_reply.Cases => Len(outcomes[w]) = 5

\* A finished run that met a readiness failure, a panic, a passing case, and
\* a teardown error in its last case.
OneOutcomePerCaseWitness ==
  /\ pc[1] = "done"
  /\ Len(outcomes[1]) = 5
  /\ outcomes[1][1].diag = "Dial"
  /\ outcomes[1][2].diag = "panic: message"
  /\ outcomes[1][3].status = "Passed"
  /\ tdErr[1]

\* C2: teardown is invoked if and only if the case's setup succeeded: once
\* when setup came through every phase and returned a handle (whatever the
\* verification did), never when a phase failed and setup returned an error.
TeardownIffSetupSucceeded ==
  \A w \in Workers :
    /\ teardowns[w] <= 1
    /\ teardowns[w] = 1 => ret[w].cont # <<>> /\ phaseFailed[w] = ""
    /\ pc[w] = "record" =>
         \/ teardowns[w] = 1 /\ ret[w].cont # <<>> /\ ret[w].err = "nil" /\ phaseFailed[w] = ""
         \/ teardowns[w] = 0 /\ ret[w].cont = <<>> /\ ret[w].err # "nil" /\ phaseFailed[w] # ""

\* A case whose verification failed has been torn down once.
TeardownIffSetupSucceededWitness ==
  /\ pc[1] = "record"
  /\ verif[1] \in PanicValues
  /\ teardowns[1] = 1

\* C3: within a case, verification begins only after a connection to the
\* case's instance has succeeded, and teardown begins only after the
\* verification procedure has concluded.
CaseEventsOrdered ==
  \A w \in Workers :
    /\ verif[w] # "none" => ready[w]
    /\ teardowns[w] > 0 => verif[w] \in TResults

\* Teardown under way after a verification that ended in a panic.
CaseEventsOrderedWitness ==
  /\ pc[1] = "remove"
  /\ ready[1]
  /\ verif[1] = "panic: error"

\* C4: once a case's execution has completed, no container created for it
\* is left in the engine.
NoDanglingContainer ==
  \A w \in Workers :
    pc[w] = "record" => FreshID(w) \notin DOMAIN containers

\* C5: a panic of the verification procedure becomes the Failed outcome of
\* that case, carrying the panic value; the run goes on to teardown and to
\* the cases after it, and ends with every case reported.
PanicBecomesFailedOutcome ==
  \A w \in Workers :
    /\ verif[w] \in PanicValues =>
         /\ result[w] = Failed(verif[w])
         /\ pc[w] \in {"teardown", "remove", "record", "next", "reported", "done"}
         /\ Recorded(w) =>
              /\ LastOutcome(w).status = "Failed"
              /\ LastOutcome(w).diag = verif[w]
    /\ pc[w] \in {"reported", "done"} => Len(outcomes[w]) = Len(suite[w])

\* The first case panicked and a later case was still verified and passed.
PanicBecomesFailedOutcomeWitness ==
  /\ pc[1] = "done"
  /\ outcomes[1][1].diag \in PanicValues
  /\ outcomes[1][2].status = "Passed"
  /\ outcomes[1][5].diag \in PanicValues

\* C6: when a phase of setup fails, the verification procedure of that case
\* is never invoked, no teardown runs, the outcome is Failed with the error
\* of that phase, and the Runner moves on.
SetupFailureShortCircuits ==
  \A w \in Workers :
    phaseFailed[w] # "" =>
      /\ verif[w] = "none"
      /\ pc[w] \in {"afterLoop", "returned", "record", "next", "reported", "done"}
      /\ pc[w] \in {"returned", "record"} => ret[w].err \in ErrorsOf(phaseFailed[w])
      /\ pc[w] = "record" => result[w] = Failed(ret[w].err)
      /\ Recorded(w) =>
           /\ LastOutcome(w).status = "Failed"
           /\ LastOutcome(w).diag = ret[w].err
           /\ LastOutcome(w).diag \in ErrorsOf(phaseFailed[w])

\* Readiness failed for the first case, container start for the second, and
\* the third case ran and passed.
SetupFailureShortCircuitsWitness ==
  /\ Len(outcomes[1]) >= 3
  /\ outcomes[1][1].diag = "Dial"
  /\ outcomes[1][2].diag = "ContainerStart"
  /\ outcomes[1][3].status = "Passed"

FailedNames(os) == { os[k].name : k \in { j \in 1..Len(os) : os[j].status = "Failed" } }

\* C7: the suite is Failed, and the exit code non-zero, exactly when a
\* mandatory case is Failed; for the rr suite, failures confined to rr-0003
\* and rr-0005 leave the status Passed and the exit code 0.
VerdictFromMandatoryCases ==
  /\ \A w \in Workers :
       pc[w] \in {"reported", "done"} =>
         /\ report[w] = "Failed" <=>
              \E k \in 1..Len(outcomes[w]) :
                outcomes[w][k].status = "Failed" /\ ~suite[w][k].Optional
         /\ report[w] \in {"Failed", "Passed"}
         /\ suite[w] = Request_reply.Cases =>
              (report[w] = "Passed" <=> FailedNames(outcomes[w]) \subseteq {"rr-0003", "rr-0005"})
  /\ exitCode # -1 =>
       /\ exitCode # 0 <=> \E w \in Workers : report[w] = "Failed"
       /\ exitCode = 0 <=> \A w \in Workers : report[w] \in {"Passed", ""}

\* Both optional cases failed, every mandatory case passed: Passed, exit 0.
VerdictFromMandatoryCasesWitness ==
  /\ pc[1] = "done"
  /\ FailedNames(outcomes[1]) = {"rr-0003", "rr-0005"}
  /\ report[1] = "Passed"
  /\ exitCode = 0

Live(w) == ret[w].cont # <<>> /\ pc[w] \in {"returned", "verifying", "teardown"}

Handle(w) == ret[w].cont[1]

\* No two live handles have the same host port.
NoSharedPort ==
  \A w, v \in Workers :
    w # v /\ Live(w) /\ Live(v) => Handle(w).hostPort # Handle(v).hostPort

\* C9 as stated: no two live handles share a host port, and from the moment
\* a port is chosen to the moment the container is bound to it nobody else,
\* setup or process, obtains that port.
PortHeldFromChoiceToBind ==
  /\ NoSharedPort
  /\ \A w \in Workers :
       pc[w] \in {"create", "start"} =>
         hostPort[w] \notin (extPorts \cup BoundPorts \cup PendingPorts(w))

\* C9, amended: no two live handles share a host port, and the port of a
\* live handle is bound to the container of that handle and to nothing
\* else; a port another process took after it was chosen never reaches a
\* handle.
LiveHandlesOwnTheirPort ==
  /\ NoSharedPort
  /\ \A w \in Workers :
       Live(w) =>
         /\ Handle(w).id \in DOMAIN containers
         /\ containers[Handle(w).id].bound = Handle(w).hostPort
         /\ Handle(w).hostPort \in Ports \ extPorts
         /\ \A c \in DOMAIN containers \ {Handle(w).id} :
              containers[c].bound # Handle(w).hostPort

\* Two workers hold live handles at once while another process holds
\* nothing.
LiveHandlesOwnTheirPortWitness ==
  /\ Live(1)
  /\ Live(2)
  /\ pc[1] = "verifying"
  /\ pc[2] = "verifying"

\* C10: an error of stop or remove leaves the outcome of the case what the
\* verification made it, and the Runner goes on to record it and to the
\* next case.
TeardownErrorSwallowed ==
  \A w \in Workers :
    tdErr[w] =>
      /\ verif[w] \in TResults
      /\ result[w] = (IF verif[w] = "nil" THEN Passed ELSE Failed(verif[w]))
      /\ pc[w] \in {"remove", "record", "next", "reported", "done"}
      /\ Recorded(w) =>
           /\ LastOutcome(w).status = result[w].status
           /\ LastOutcome(w).diag = result[w].diag

\* The first case passed although its container could not be removed, and
\* the second case ran and passed.
TeardownErrorSwallowedWitness ==
  /\ Len(outcomes[1]) >= 2
  /\ outcomes[1][1].status = "Passed"
  /\ << 1, 1 >> \in DOMAIN containers
  /\ outcomes[1][2].status = "Passed"

\* C11: a container the default setup creates for a case of the rr suite
\* exposes the suite's declared port and is told that port in PORT.
ContainerUsesSuitePort ==
  \A c \in DOMAIN containers :
    /\ containers[c].exposed = Request_reply.Port
    /\ containers[c].env = Request_reply.Port

\* The calls of setup, in the order of the code.
SetupOrder == << "ImagePull", "getFreePort", "ContainerCreate", "ContainerStart", "Dial" >>

\* The error kind the taxonomy gives a failure of each phase.
KindOf(phase) ==
  CASE phase = "ImagePull" -> "ImageUnavailable"
    [] phase = "getFreePort" -> "PortExhaustion"
    [] phase \in {"ContainerCreate", "ContainerStart"} -> "StartFailure"
    [] phase = "Dial" -> "ReadinessTimeout"

\* C12: the value setup returns for a failure tells the kind of the phase
\* that failed: every phase that can produce that value has the kind of
\* the phase that did.
ErrorKindIdentifiesPhase ==
  \A w \in Workers :
    pc[w] = "returned" /\ phaseFailed[w] # "" =>
      \A k \in 1..Len(SetupOrder) :
        ret[w].err \in ErrorsOf(SetupOrder[k]) => KindOf(SetupOrder[k]) = KindOf(phaseFailed[w])

\* C15: the sleep after failed attempt i is 10 ms * 2^i, so after i failed
\* attempts the loop has slept 10, 20, 40, ... for 10 * (2^i - 1) ms in
\* all, and 10230 ms when the tenth attempt has failed.
BackoffDoubles ==
  \A w \in Workers :
    /\ waited[w] <= 10230
    /\ pc[w] = "dial" => waited[w] = 10 * (2^(i[w]) - 1)
    /\ pc[w] = "afterLoop" /\ err[w] # "nil" => waited[w] = 10230

\* The tenth attempt has failed and its sleep is over.
BackoffDoublesWitness ==
  /\ pc[1] = "afterLoop"
  /\ err[1] = "Dial"
  /\ dials[1] = 10
  /\ waited[1] = 10230

\* C16: once a connection attempt has succeeded the loop is left with no
\* further attempt and no sleep; the settle delay is slept once, before the
\* handle is returned, and never when setup fails.
SettleOnceAfterSuccess ==
  \A w \in Workers :
    /\ ready[w] => pc[w] # "dial"
    /\ pc[w] = "afterLoop" /\ err[w] = "nil" =>
         /\ ready[w]
         /\ waited[w] = 10 * (2^(dials[w] - 1) - 1)
    /\ pc[w] = "settle" => ready[w]
    /\ setupLog[w].settled \in {0, 1000}
    /\ pc[w] \in {"pull", "port", "create", "start", "dial", "afterLoop", "settle"} =>
         setupLog[w].settled = 0
    /\ ret[w].cont # <<>> => setupLog[w].settled = 1000
    /\ setupLog[w].settled # 0 => ready[w] /\ ret[w].cont # <<>>
    /\ phaseFailed[w] # "" => setupLog[w].settled = 0

\* The fourth attempt succeeded after sleeps of 10, 20 and 40 ms.
SettleOnceAfterSuccessWitness ==
  /\ pc[1] = "afterLoop"
  /\ err[1] = "nil"
  /\ dials[1] = 4
  /\ waited[1] = 70

\* C17: setup issues its calls in the order pull, port, create, start,
\* dial, and a failed call is the last one: no port after a failed pull, no
\* container after a failed pull or port lookup, no start after a failed
\* create, no connection attempt after a failed start.
StepsInOrder ==
  \A w \in Workers :
    /\ setupLog[w].steps = SubSeq(SetupOrder, 1, Len(setupLog[w].steps))
    /\ pc[w] = "port" => Len(setupLog[w].steps) = 1
    /\ pc[w] = "create" => Len(setupLog[w].steps) = 2
    /\ pc[w] = "start" => Len(setupLog[w].steps) = 3
    /\ phaseFailed[w] # "" =>
         /\ setupLog[w].steps # <<>>
         /\ setupLog[w].steps[Len(setupLog[w].steps)] = phaseFailed[w]
    /\ phaseFailed[w] # "" /\ pc[w] \in {"returned", "record"} =>
         /\ phaseFailed[w] \in {"ImagePull", "getFreePort", "ContainerCreate"} =>
              FreshID(w) \notin DOMAIN containers
         /\ phaseFailed[w] = "ContainerStart" =>
              /\ containers[FreshID(w)].state = "created"
              /\ ~ready[w]
              /\ setupLog[w].probed = 0

\* The first case passed; the second was stopped by a failed create after
\* the pull and the port lookup.
StepsInOrderWitness ==
  /\ Len(outcomes[1]) = 1
  /\ outcomes[1][1].status = "Passed"
  /\ pc[1] = "returned"
  /\ phaseFailed[1] = "ContainerCreate"
  /\ setupLog[1].steps = << "ImagePull", "getFreePort", "ContainerCreate" >>

\* C18: when setup is about to issue the create request, the pull has
\* finished and the image is in the local store.
PullFinishedBeforeCreate ==
  \A w \in Workers :
    pc[w] = "create" => image = "present"

\* C19: a handle setup returned names the container created and started by
\* that call, and its host port is the port the lookup gave, the port the
\* engine bound to the container's exposed port, and the port a connection
\* attempt reached.
HandleIsWhatWasProbed ==
  \A w \in Workers :
    /\ pc[w] = "settle" =>
         /\ cont[w] = << FreshID(w) >>
         /\ containers[FreshID(w)].state = "running"
         /\ containers[FreshID(w)].bound = hostPort[w]
         /\ setupLog[w].probed = hostPort[w]
    /\ ret[w].cont # <<>> =>
         /\ ready[w]
         /\ setupLog[w].steps = SetupOrder
         /\ setupLog[w].probed = Handle(w).hostPort
         /\ Handle(w).hostPort \in Ports
         /\ pc[w] \in {"returned", "verifying", "teardown", "remove", "record"} =>
              Handle(w).id = FreshID(w)
         /\ Live(w) =>
              /\ containers[Handle(w).id].state = "running"
              /\ containers[Handle(w).id].bound = Handle(w).hostPort
              /\ containers[Handle(w).id].exposed = ContainerPort

\* The second case holds a handle on its own container while the container
\* of the first case, whose readiness failed, is still running.
HandleIsWhatWasProbedWitness ==
  /\ pc[1] = "verifying"
  /\ idx[1] = 2
  /\ outcomes[1][1].diag = "Dial"
  /\ << 1, 1 >> \in DOMAIN containers
  /\ Handle(1).id = << 1, 2 >>
  /\ setupLog[1].probed = Handle(1).hostPort

\* The reply is what the scenario of rr-0002 expects: status 200, the body,
\* and one Content-Type line, well formed, of one of the given values.
GoodReply(r, body, lines) ==
  /\ r.err = "nil"
  /\ r.status = 200
  /\ r.body = body
  /\ Len(r.contentType) = 1
  /\ r.contentType[1] \in lines

\* C13: rr-0002 passes exactly when the reply to Accept: text/plain is 200,
\* HELLO, one Content-Type of media type text/plain, and the reply to
\* Accept: application/json is 200, "HELLO" in quotes, one Content-Type of
\* media type application/json; otherwise it ends in a panic.
Rr0002PassesIffBothRepliesGood ==
  probe.case = "rr-0002" /\ probe.out # "" =>
    /\ probe.out \in TResults
    /\ probe.out = "nil" <=>
         /\ GoodReply(probe.first, "HELLO",
                      {"text/plain", "text/plain; charset=utf-8", "TEXT/PLAIN"})
         /\ GoodReply(probe.second, "\"HELLO\"",
                      {"application/json", "application/json; charset=utf-8"})
    /\ "transport" \in {probe.first.err, probe.second.err} => probe.out # "nil"

\* rr-0002 has passed a candidate that adds a charset to its text/plain.
Rr0002PassesIffBothRepliesGoodWitness ==
  /\ probe.case = "rr-0002"
  /\ probe.out = "nil"
  /\ probe.first.contentType = << "text/plain; charset=utf-8" >>
  /\ probe.second.contentType = << "application/json" >>

\* The reply carries the function's result, as text or JSON-quoted.
CarriesResult(r) == r.err = "nil" /\ r.body \in {"HELLO", "\"HELLO\""}

\* The candidate served the request.
Served(r) == r.err = "nil" /\ r.status = 200

====
